---- MODULE Spec2Model ----
(***************************************************************************)
(* Scenario execution lifecycle of the Playwright/Cucumber framework:      *)
(* the BrowserManager singleton (src/utils/browser-manager.ts), the        *)
(* CustomWorld (src/common/world.ts) and the Cucumber hooks                *)
(* (src/common/hooks.ts).                                                  *)
(*                                                                         *)
(* Seven specifications share the variables:                               *)
(*   Spec    the run as the Cucumber runner drives it: BeforeAll, then per *)
(*           scenario world construction, Before, steps, After, and        *)
(*           finally AfterAll;                                             *)
(*   SpecSetup  scenario setups alone, for every process environment and   *)
(*           every tag list of up to MaxTags tags;                         *)
(*   SpecBM  the BrowserManager alone, its public operations called in any *)
(*           order with any outcome of the underlying engine calls;        *)
(*   SpecWorld  the CustomWorld alone, its data and timing helpers called  *)
(*           in any order;                                                 *)
(*   SpecHelpers  the CustomWorld's page helpers, failure handling and     *)
(*           cleanup called in any order;                                  *)
(*   SpecPage  a page object (tests/pages/base-page.ts), its navigation,   *)
(*           interaction and assertion primitives called in any order;     *)
(*   SpecEnv  the EnvironmentManager singleton (src/config/environment.ts) *)
(*           and the operations it exposes.                                *)
(*                                                                         *)
(* An intermediate state that a definition reads more than once is bound   *)
(* as the element of a singleton set,                                      *)
(*     CHOOSE r \in {f(x) : x \in {e}} : TRUE                               *)
(* (in an action: \E x \in {e} : ...),                                     *)
(* which is f(e) with e computed once.                                     *)
(***************************************************************************)
EXTENDS Integers, Sequences, FiniteSets, TLC

VARIABLES
    pc,          \* position of the runner in the run / scenario state machine
    env,         \* process.env as read by the code: BROWSER and ENV
    config,      \* EnvironmentManager.currentEnvironment, NoConfig before
    bm,          \* BrowserManager fields: browser, context, page
    engine,      \* what is open in the browser-automation engine
    world,       \* the CustomWorld of the current scenario
    testStats,   \* hooks.ts testStats counters
    scenario,    \* the runner's record of the current scenario
    hookLog,     \* error/warn records logged by the hooks of the current scenario
    summary,     \* results block of reports/test-summary.json, NoSummary before
    hist,        \* history: values at scenario start, previous scenario's facts
    lastCall     \* SpecBM: the last BrowserManager call and whether it raised

vars == <<pc, env, config, bm, engine, world, testStats, scenario, hookLog, summary,
          hist, lastCall>>

----------------------------------------------------------------------------
(* Bounds *)

MaxScenarios == 2      \* scenarios the runner executes in one run
MaxSteps == 2          \* step bodies executed in one scenario
MaxSetups == 1         \* scenarios set up in one SpecSetup behaviour
MaxIds == 4            \* engine objects created in one SpecBM behaviour
MaxClock == 4          \* clock readings 1..MaxClock in one SpecWorld behaviour

----------------------------------------------------------------------------
(* Values *)

Null == 0              \* null / undefined reference; object identities are 1, 2, ...

MobileViewport  == [width |-> 375,  height |-> 667]
TabletViewport  == [width |-> 768,  height |-> 1024]
DesktopViewport == [width |-> 1920, height |-> 1080]

\* environments[envName].browser.viewport with VIEWPORT unset
ConfigViewport == [width |-> 1920, height |-> 1080]

BrowserValues == {"unset", "chromium", "chrome", "firefox", "webkit", "safari"}
EnvValues == {"unset", "t3", "t5"}

\* process environments of the runs of Spec; SpecSetup takes every combination
RunEnvs == [BROWSER : {"unset", "firefox"}, ENV : {"unset"}]
AllEnvs == [BROWSER : BrowserValues, ENV : EnvValues]

\* process.env[k], "unset" when the variable is not set
EnvGet(e, k) == IF k \in DOMAIN e THEN e[k] ELSE "unset"

NaN == -1

\* parseInt(s, 10) of the values the environment variables take here
ParseInt(s) ==
    CASE s = "5000" -> 5000
      [] s = "100" -> 100
      [] OTHER -> NaN

EnvironmentNames == {"t3", "t5"}

NoConfig == [name |-> "none"]

\* the environments table: the entry of a named environment
Environments(name, e) ==
    [name |-> name,
     baseUrl |-> "https://frbsf.org",
     browser |-> [headless |-> EnvGet(e, "HEADED") # "true",
                  viewport |-> ConfigViewport,
                  timeout |-> 30000,
                  slowMo |-> 0],
     pageLoadTimeout |-> 30000,
     elementTimeout |-> 10000]

\* applyEnvironmentOverrides: VIEWPORT, HEADED, TIMEOUT and SLOW_MO
ApplyEnvironmentOverrides(cfg, e) ==
    [cfg EXCEPT
        !.browser.viewport =
            CASE EnvGet(e, "VIEWPORT") = "mobile" -> MobileViewport
              [] EnvGet(e, "VIEWPORT") = "tablet" -> TabletViewport
              [] EnvGet(e, "VIEWPORT") = "desktop" -> DesktopViewport
              [] OTHER -> @,
        !.browser.headless = IF EnvGet(e, "HEADED") = "true" THEN FALSE ELSE @,
        !.browser.timeout =
            IF EnvGet(e, "TIMEOUT") # "unset" THEN ParseInt(EnvGet(e, "TIMEOUT")) ELSE @,
        !.pageLoadTimeout =
            IF EnvGet(e, "TIMEOUT") # "unset" THEN ParseInt(EnvGet(e, "TIMEOUT")) ELSE @,
        !.browser.slowMo =
            IF EnvGet(e, "SLOW_MO") # "unset" THEN ParseInt(EnvGet(e, "SLOW_MO")) ELSE @]

\* the constructor: the named environment with the overrides applied; it
\* throws for a name that is not in the table, and no manager exists then
EnvironmentManagerNew(e) ==
    CHOOSE r \in
        {IF name \in EnvironmentNames
         THEN ApplyEnvironmentOverrides(Environments(name, e), e)
         ELSE NoConfig
         : name \in {IF EnvGet(e, "ENV") = "unset" THEN "t3" ELSE EnvGet(e, "ENV")}} : TRUE

\* updateConfig: { ...currentEnvironment, ...updates }
UpdateConfig(cfg, updates) ==
    [k \in DOMAIN cfg |-> IF k \in DOMAIN updates THEN updates[k] ELSE cfg[k]]

\* outcome of the engine calls made during one operation
AllOk == [launch |-> TRUE, newContext |-> TRUE, newPage |-> TRUE,
          pageClose |-> TRUE, contextClose |-> "ok", browserClose |-> TRUE,
          screenshot |-> TRUE, setViewportSize |-> TRUE, writeFile |-> TRUE,
          goto |-> TRUE, domReady |-> TRUE, networkIdle |-> "ok",
          visible |-> TRUE, action |-> TRUE, expect |-> TRUE,
          loaded |-> TRUE, urlIsAbout |-> TRUE, title |-> TRUE]

\* page.waitForLoadState('networkidle', {timeout: 10000})
IdleOutcomes == {"ok", "timeout"}

CloseOutcomes == {"ok", "raise", "timeout"}

----------------------------------------------------------------------------
(* BrowserManager.  A session s joins the manager's fields (browser,       *)
(* context, page) with the engine's state (browsers, contexts, pages,      *)
(* closing, nextId) and err, set when the operation raised.                *)

Session(b, e) ==
    [browser |-> b.browser, context |-> b.context, page |-> b.page,
     browsers |-> e.browsers, contexts |-> e.contexts, pages |-> e.pages,
     closing |-> e.closing, nextId |-> e.nextId, err |-> FALSE]

BmOf(s) == [browser |-> s.browser, context |-> s.context, page |-> s.page]

EngineOf(s) ==
    [browsers |-> s.browsers, contexts |-> s.contexts, pages |-> s.pages,
     closing |-> s.closing, nextId |-> s.nextId]

\* page.isClosed()
IsClosed(s, p) == \A r \in s.pages : r.id # p

Raise(s) == [s EXCEPT !.err = TRUE]

\* a launchBrowser that starts a process without looking at the one it holds
LaunchBrowserAlways(s, o) ==
    IF o.launch
    THEN [s EXCEPT !.browser = s.nextId,
                   !.browsers = @ \cup {s.nextId},
                   !.nextId = @ + 1]
    ELSE Raise(s)

LaunchBrowser(s, o) ==
    IF s.browser # Null THEN s
    ELSE IF o.launch
         THEN [s EXCEPT !.browser = s.nextId,
                        !.browsers = @ \cup {s.nextId},
                        !.nextId = @ + 1]
         ELSE Raise(s)

\* a createContext that opens a context without looking at the one it holds
CreateContextAlwaysNew(s, o) ==
    CHOOSE r \in
        {IF s1.err THEN s1
         ELSE IF o.newContext
              THEN [s1 EXCEPT !.context = s1.nextId,
                              !.contexts = @ \cup {s1.nextId},
                              !.nextId = @ + 1]
              ELSE Raise(s1)
         : s1 \in {IF s.browser = Null THEN LaunchBrowser(s, o) ELSE s}} : TRUE

CreateContext(s, o) ==
    CHOOSE r \in
        {IF s1.err THEN s1
         ELSE IF s1.context # Null THEN s1
         ELSE IF o.newContext
              THEN [s1 EXCEPT !.context = s1.nextId,
                              !.contexts = @ \cup {s1.nextId},
                              !.nextId = @ + 1]
              ELSE Raise(s1)
         : s1 \in {IF s.browser = Null THEN LaunchBrowser(s, o) ELSE s}} : TRUE

CreatePage(s, o) ==
    CHOOSE r \in
        {IF s1.err THEN s1
         ELSE IF s1.page # Null /\ ~IsClosed(s1, s1.page) THEN s1
         ELSE IF o.newPage
              THEN [s1 EXCEPT !.page = s1.nextId,
                              !.pages = @ \cup {[id |-> s1.nextId,
                                                 ctx |-> s1.context,
                                                 size |-> ConfigViewport]},
                              !.nextId = @ + 1]
              ELSE Raise(s1)
         : s1 \in {IF s.context = Null THEN CreateContext(s, o) ELSE s}} : TRUE

\* a getCurrentPage that does not ask whether the tracked page is closed
GetCurrentPageNoClosedCheck(s, o) ==
    IF s.page = Null THEN CreatePage(s, o) ELSE s

GetCurrentPage(s, o) ==
    IF s.page = Null \/ IsClosed(s, s.page) THEN CreatePage(s, o) ELSE s

ClosePage(s, o) ==
    IF s.page # Null /\ ~IsClosed(s, s.page)
    THEN IF o.pageClose
         THEN [s EXCEPT !.pages = {r \in @ : r.id # s.page}, !.page = Null]
         ELSE Raise(s)
    ELSE s

\* the engine's effect of context.close() raced against the 1 second timer:
\* "ok" the close finished in time, "raise" it rejected (the context is closed
\* already or its artifacts could not be saved: no context is left open),
\* "timeout" the timer won and the close is still in flight
ContextCloseEffect(s, o) ==
    CASE o.contextClose \in {"ok", "raise"} ->
            [s EXCEPT !.contexts = @ \ {s.context},
                      !.pages = {r \in @ : r.ctx # s.context}]
      [] o.contextClose = "timeout" ->
            [s EXCEPT !.closing = @ \cup {s.context}]

\* a closeContext whose references are cleared in the try block, after the race
CloseContextClearsOnSuccess(s, o) ==
    IF s.context # Null
    THEN IF o.contextClose = "raise"
         THEN s
         ELSE [ContextCloseEffect(s, o) EXCEPT !.context = Null, !.page = Null]
    ELSE s

CloseContext(s, o) ==
    IF s.context # Null
    THEN [ContextCloseEffect(s, o) EXCEPT !.context = Null, !.page = Null]
    ELSE s

\* a closeBrowser that forgets to clear the context and page references
CloseBrowserKeepsContext(s, o) ==
    IF s.browser # Null
    THEN IF o.browserClose
         THEN [s EXCEPT !.browsers = {}, !.contexts = {}, !.pages = {},
                        !.closing = {}, !.browser = Null]
         ELSE Raise(s)
    ELSE s

CloseBrowser(s, o) ==
    IF s.browser # Null
    THEN IF o.browserClose
         THEN [s EXCEPT !.browsers = {}, !.contexts = {}, !.pages = {},
                        !.closing = {},
                        !.browser = Null, !.context = Null, !.page = Null]
         ELSE Raise(s)
    ELSE s

TakeScreenshot(s, o) ==
    CHOOSE r \in
        {IF s1.err THEN s1
         ELSE IF o.screenshot THEN s1 ELSE Raise(s1)
         : s1 \in {GetCurrentPage(s, o)}} : TRUE

\* page.goto to 'domcontentloaded' on page p: it rejects on a closed page
GotoSucceeds(s, o, p) == o.goto /\ ~IsClosed(s, p)

\* navigateToUrl: the network-idle wait is inside the try block whose catch
\* logs and rethrows
NavigateToUrl(s, o) ==
    CHOOSE r \in
        {IF s1.err THEN s1
         ELSE IF ~GotoSucceeds(s1, o, s1.page) THEN Raise(s1)
         ELSE IF o.networkIdle = "timeout" THEN Raise(s1)
         ELSE s1
         : s1 \in {GetCurrentPage(s, o)}} : TRUE

\* BrowserManager.waitForPageLoad: both waits inside try, the catch only warns
WaitForPageLoad(s, o) == GetCurrentPage(s, o)

\* BROWSER || 'chromium', lower-cased, switched on
GetBrowserType(browserEnv) ==
    CASE browserEnv = "firefox" -> "firefox"
      [] browserEnv \in {"webkit", "safari"} -> "webkit"
      [] OTHER -> "chromium"

----------------------------------------------------------------------------
(* CustomWorld.  An execution state st joins the world w, the session s,   *)
(* the run statistics, the records logged at error/warn level, and a trace *)
(* of what the operation did.                                              *)

Undefined == "undefined"

EmptyMap == [k \in {} |-> ""]

MapSet(m, k, v) == [x \in (DOMAIN m) \cup {k} |-> IF x = k THEN v ELSE m[x]]

MapGet(m, k) == IF k \in DOMAIN m THEN m[k] ELSE Undefined

\* no World exists before the first scenario: the fields are unset
NoWorld ==
    [page |-> Null,
     testData |-> << >>,
     scenarioContext |-> << >>,
     screenshots |-> << >>,
     traces |-> << >>,
     currentScenario |-> Undefined,
     currentStep |-> Undefined,
     testStartTime |-> 0,
     homePage |-> [page |-> Null],
     searchResultsPage |-> [page |-> Null]]

\* the fields a World that shares its maps with the previous instance would have
CustomWorldSharedMaps ==
    [page |-> Null,
     testData |-> world.testData,
     scenarioContext |-> world.scenarioContext,
     screenshots |-> << >>,
     traces |-> << >>,
     currentScenario |-> Undefined,
     currentStep |-> Undefined,
     testStartTime |-> 0,
     homePage |-> [page |-> Null],
     searchResultsPage |-> [page |-> Null]]

\* new CustomWorld(options)
CustomWorld ==
    [page |-> Null,
     testData |-> EmptyMap,
     scenarioContext |-> EmptyMap,
     screenshots |-> << >>,
     traces |-> << >>,
     currentScenario |-> Undefined,
     currentStep |-> Undefined,
     testStartTime |-> 0,
     homePage |-> [page |-> Null],
     searchResultsPage |-> [page |-> Null]]

NoTrace == [closeCalled |-> FALSE, shotAttempted |-> FALSE, shotTaken |-> FALSE,
            catchEntered |-> FALSE]

Exec(w, s, stats) ==
    [w |-> w, s |-> s, stats |-> stats, log |-> {}, trace |-> NoTrace, ret |-> Null,
     events |-> << >>]

Throw(st) == [st EXCEPT !.s.err = TRUE]

\* catch (error) { logger.error(msg, error) }
Catch(st, msg) ==
    IF st.s.err THEN [st EXCEPT !.s.err = FALSE, !.log = @ \cup {msg}] ELSE st

\* catch (error) { logger.error(msg, error); throw error }
LogRethrow(st, msg) ==
    IF st.s.err THEN [st EXCEPT !.log = @ \cup {msg}] ELSE st

SetTestData(st, k, v) == [st EXCEPT !.w.testData = MapSet(@, k, v)]

SetScenarioContext(st, k, v) == [st EXCEPT !.w.scenarioContext = MapSet(@, k, v)]

\* a cleanupTestData that keeps the scenario context
CleanupTestDataKeepsContext(st) ==
    [st EXCEPT !.w.testData = EmptyMap,
               !.w.screenshots = << >>,
               !.w.traces = << >>,
               !.w.currentScenario = Undefined,
               !.w.currentStep = Undefined,
               !.w.testStartTime = 0]

\* clear() of both maps, fresh lists, delete of the three optional fields
CleanupTestData(st) ==
    [st EXCEPT !.w.testData = EmptyMap,
               !.w.scenarioContext = EmptyMap,
               !.w.screenshots = << >>,
               !.w.traces = << >>,
               !.w.currentScenario = Undefined,
               !.w.currentStep = Undefined,
               !.w.testStartTime = 0]

\* testStartTime = Date.now(); the clock reads 1 or more, 0 is the unset field
StartPerformanceMeasurement(st, now) == [st EXCEPT !.w.testStartTime = now]

\* an endPerformanceMeasurement that keeps the start timestamp
EndPerformanceMeasurementKeepsStart(st, now) ==
    IF st.w.testStartTime = 0
    THEN [st EXCEPT !.log = @ \cup {"Performance measurement was not started"},
                    !.ret = 0]
    ELSE [st EXCEPT !.ret = now - st.w.testStartTime]

EndPerformanceMeasurement(st, now) ==
    IF st.w.testStartTime = 0
    THEN [st EXCEPT !.log = @ \cup {"Performance measurement was not started"},
                    !.ret = 0]
    ELSE [st EXCEPT !.ret = now - st.w.testStartTime,
                    !.w.testStartTime = 0]

InitializePageObjects(st, o) ==
    CHOOSE r \in
        {IF s1.err
         THEN LogRethrow([st EXCEPT !.s = s1], "Failed to initialize page objects")
         ELSE [st EXCEPT !.s = s1, !.w.page = s1.page,
                         !.w.homePage = [page |-> s1.page],
                         !.w.searchResultsPage = [page |-> s1.page]]
         : s1 \in {GetCurrentPage(st.s, o)}} : TRUE

\* a captureScreenshot that does not record the path
CaptureScreenshotNoPush(st, o, name) ==
    CHOOSE r \in
        {IF st1.s.err
         THEN LogRethrow(st1, "Failed to capture screenshot")
         ELSE [st1 EXCEPT !.trace.shotTaken = TRUE]
         : st1 \in {[st EXCEPT !.s = TakeScreenshot(st.s, o),
                                !.trace.shotAttempted = TRUE]}} : TRUE

CaptureScreenshot(st, o, name) ==
    CHOOSE r \in
        {IF st1.s.err
         THEN LogRethrow(st1, "Failed to capture screenshot")
         ELSE [st1 EXCEPT !.w.screenshots = Append(@, name),
                          !.trace.shotTaken = TRUE]
         : st1 \in {[st EXCEPT !.s = TakeScreenshot(st.s, o),
                                !.trace.shotAttempted = TRUE]}} : TRUE

\* handleTestFailure: the capture, the page information and the scenario
\* context are logged inside one try block
HandleTestFailure(st, o) ==
    CHOOSE r \in
        {IF st1.s.err
         THEN Catch(st1, "Failed to capture failure screenshot")
         ELSE CHOOSE q \in
                  {IF st2.s.err
                   THEN Catch(st2, "Failed to capture failure screenshot")
                   ELSE IF st2.w.scenarioContext # EmptyMap
                        THEN [st2 EXCEPT !.log = @ \cup {"Scenario context at failure:"}]
                        ELSE st2
                   : st2 \in {IF st1.w.page = Null THEN st1
                              ELSE IF o.title /\ ~IsClosed(st1.s, st1.w.page)
                                   THEN [st1 EXCEPT !.log = @ \cup {"Failure occurred on page"}]
                                   ELSE Throw(st1)}} : TRUE
         : st1 \in {CaptureScreenshot([st EXCEPT !.log = @ \cup {"Test failure in step"}],
                                      o, "failure")}} : TRUE

\* page.setViewportSize(size) on the page the world holds
SetViewportSize(s, o, p, size) ==
    IF o.setViewportSize /\ ~IsClosed(s, p)
    THEN [s EXCEPT !.pages = {IF r.id = p THEN [r EXCEPT !.size = size] ELSE r
                              : r \in @}]
    ELSE Raise(s)

\* setMobileViewport / setTabletViewport / setDesktopViewport
SetViewport(st, o, size, mode) ==
    IF st.w.page # Null
    THEN CHOOSE r \in
             {IF s1.err THEN [st EXCEPT !.s = s1]
              ELSE SetScenarioContext([st EXCEPT !.s = s1], "viewport", mode)
              : s1 \in {SetViewportSize(st.s, o, st.w.page, size)}} : TRUE
    ELSE st

SetMobileViewport(st, o)  == SetViewport(st, o, MobileViewport, "mobile")
SetTabletViewport(st, o)  == SetViewport(st, o, TabletViewport, "tablet")
SetDesktopViewport(st, o) == SetViewport(st, o, DesktopViewport, "desktop")

----------------------------------------------------------------------------
(* BasePage, for the HomePage object the World constructs.  events lists   *)
(* what a call logged and did on the page, in order.                       *)

Ev(st, type, what) == [st EXCEPT !.events = Append(@, [type |-> type, what |-> what])]

PageModules == {"homePage", "searchResultsPage"}

\* getPage of a page module: the page is asked of the manager once and kept
GetPageOf(st, o, module) ==
    IF st.w[module].page # Null THEN st
    ELSE CHOOSE r \in
             {IF s1.err THEN [st EXCEPT !.s = s1]
              ELSE [st EXCEPT !.s = s1, !.w[module] = [page |-> s1.page]]
              : s1 \in {GetCurrentPage(st.s, o)}} : TRUE

GetPage(st, o) == GetPageOf(st, o, "homePage")

\* HomePage.isPageLoaded / SearchResultsPage.isPageLoaded: every error is
\* caught and answered with false
IsPageLoaded(st, o, module) ==
    CHOOSE r \in
        {IF st1.s.err
         THEN [st1 EXCEPT !.s.err = FALSE, !.ret = FALSE]
         ELSE [st1 EXCEPT !.ret = o.domReady /\ o.loaded
                                    /\ ~IsClosed(st1.s, st1.w[module].page)]
         : st1 \in {GetPageOf(Ev(st, "isPageLoaded", module), o, module)}} : TRUE

\* a waitForPageLoad whose waits are not wrapped in try/catch
BasePageWaitForPageLoadNoCatch(st, o) ==
    CHOOSE r \in
        {IF st1.s.err THEN st1
         ELSE IF o.domReady /\ ~IsClosed(st1.s, st1.w.homePage.page)
                 /\ o.networkIdle = "ok"
              THEN Ev(st1, "info", "Page loaded successfully")
              ELSE Throw(st1)
         : st1 \in {GetPage(st, o)}} : TRUE

\* BasePage.waitForPageLoad
BasePageWaitForPageLoad(st, o) ==
    CHOOSE r \in
        {IF st1.s.err THEN st1
         ELSE IF o.domReady /\ ~IsClosed(st1.s, st1.w.homePage.page)
                 /\ o.networkIdle = "ok"
              THEN Ev(st1, "info", "Page loaded successfully")
              ELSE Ev(st1, "warn", "Page load timeout, continuing...")
         : st1 \in {GetPage(st, o)}} : TRUE

\* the two copies of world.ts in the repository: the first has a case for
\* 'about' in validateCurrentPageLoaded, the second has not
WorldCopies == {"first", "second"}

\* a validateCurrentPageLoaded that asks the home page module by default
ValidateCurrentPageLoadedOpen(st, o, copy) ==
    CHOOSE r \in
        {CASE cur = "search-results" -> IsPageLoaded(st, o, "searchResultsPage")
           [] OTHER -> IsPageLoaded(st, o, "homePage")
         : cur \in {MapGet(st.w.scenarioContext, "currentPage")}} : TRUE

\* validateCurrentPageLoaded: the switch on the scenario-context key
ValidateCurrentPageLoaded(st, o, copy) ==
    CHOOSE r \in
        {CASE cur = "home" -> IsPageLoaded(st, o, "homePage")
           [] cur = "search-results" -> IsPageLoaded(st, o, "searchResultsPage")
           [] cur = "about" /\ copy = "first" ->
                CHOOSE q \in
                    {IF st1.s.err THEN st1
                     ELSE [Ev(st1, "getCurrentUrl", "homePage")
                              EXCEPT !.ret = o.urlIsAbout]
                     : st1 \in {GetPageOf(st, o, "homePage")}} : TRUE
           [] OTHER -> [st EXCEPT !.log = @ \cup {"Unknown page type"},
                                  !.ret = FALSE]
         : cur \in {MapGet(st.w.scenarioContext, "currentPage")}} : TRUE


\* BasePage.navigateTo
NavigateTo(st, o) ==
    CHOOSE r \in
        {IF st1.s.err THEN st1
         ELSE IF GotoSucceeds(st1.s, o, st1.w.homePage.page)
              THEN BasePageWaitForPageLoad(Ev(st1, "page", "goto"), o)
              ELSE Throw(st1)
         : st1 \in {GetPage(Ev(st, "pageAction", "Navigating to"), o)}} : TRUE

Interactions == {"click", "dblclick", "hover", "fill", "selectOption", "setInputFiles"}

\* the primitives that call element.waitFor({state: 'visible'}) before acting
WaitsForVisible(kind) == kind # "setInputFiles"

\* clickElement, doubleClickElement, hoverElement, typeText, selectOption,
\* uploadFile: log, findElement, wait (but for uploadFile), act
Interact(st, o, kind) ==
    CHOOSE r \in
        {IF st1.s.err THEN st1
         ELSE CHOOSE q \in
                  {IF st2.s.err THEN st2
                   ELSE IF o.action /\ ~IsClosed(st2.s, st2.w.homePage.page)
                        THEN Ev(st2, "page", kind)
                        ELSE Throw(st2)
                   : st2 \in {IF ~WaitsForVisible(kind) THEN st1
                              ELSE IF o.visible
                                         /\ ~IsClosed(st1.s, st1.w.homePage.page)
                                   THEN Ev(st1, "waitFor", "visible")
                                   ELSE Throw(st1)}} : TRUE
         : st1 \in {GetPage(Ev(st, "pageAction", kind), o)}} : TRUE

Assertions == {"toBeVisible", "toBeHidden", "toContainText", "toHaveValue",
               "toHaveTitle", "toHaveURL"}

\* assertElementVisible .. assertPageUrl: the page, the expect, then
\* logger.assertion(description, true)
AssertThat(st, o, kind) ==
    CHOOSE r \in
        {IF st1.s.err THEN st1
         ELSE IF o.expect /\ ~IsClosed(st1.s, st1.w.homePage.page)
              THEN Ev(Ev(st1, "expect", kind), "assertion", "PASSED")
              ELSE Throw(Ev(st1, "expect", kind))
         : st1 \in {GetPage(st, o)}} : TRUE

----------------------------------------------------------------------------
(* Hooks *)

AllTags == {"@mobile", "@tablet", "@desktop", "@performance", "@critical",
            "@chromium-only", "@firefox-only", "@webkit-only",
            "@t3-only", "@t5-only"}

\* the tag lists of the scenarios of Spec
TagSets == {{}, {"@mobile"}, {"@performance", "@critical"}, {"@firefox-only"},
            {"@tablet", "@t5-only"}}

\* the tag lists of the scenarios of SpecSetup: up to MaxTags tags
MaxTags == 2
SetupTagSets == {T \in SUBSET AllTags : Cardinality(T) <= MaxTags}

ScenarioNames == {"Home page loads"}

\* scenarioName.replace(/\s+/g, '-') prefixed with failed-scenario-
FailedShotName(name) ==
    CASE name = "Home page loads" -> "failed-scenario-Home-page-loads"
      [] name = "Unknown Scenario" -> "failed-scenario-Unknown-Scenario"

\* process.env.ENV || 't3', then environments[envName].name
GetEnvironmentName(e) == IF e.ENV = "unset" THEN "t3" ELSE e.ENV

\* the viewport branch chain of setupScenarioConfiguration
ViewportByTag(st, o, tags) ==
    IF "@mobile" \in tags THEN SetMobileViewport(st, o)
    ELSE IF "@tablet" \in tags THEN SetTabletViewport(st, o)
    ELSE IF "@desktop" \in tags THEN SetDesktopViewport(st, o)
    ELSE st

\* the browser restriction as written: the raw BROWSER value is compared
BrowserTagRaises(tags, e) ==
    \/ "@chromium-only" \in tags /\ e.BROWSER # "chromium"
    \/ "@firefox-only" \in tags /\ e.BROWSER # "firefox"
    \/ "@webkit-only" \in tags /\ e.BROWSER # "webkit"

EnvironmentTagRaises(tags, e) ==
    \/ "@t3-only" \in tags /\ GetEnvironmentName(e) # "t3"
    \/ "@t5-only" \in tags /\ GetEnvironmentName(e) # "t5"

SetupScenarioConfiguration(st, o, tags, e) ==
    CHOOSE r \in
        {IF st1.s.err THEN st1
         ELSE CHOOSE q \in
                  {IF BrowserTagRaises(tags, e) \/ EnvironmentTagRaises(tags, e)
                   THEN Throw(st3)
                   ELSE st3
                   : st3 \in {IF "@critical" \in tags
                              THEN SetScenarioContext(st2, "criticalTest", "true")
                              ELSE st2
                              : st2 \in {IF "@performance" \in tags
                                         THEN SetScenarioContext(
                                                  SetScenarioContext(st1,
                                                      "performanceTest", "true"),
                                                  "performanceThreshold", "5000")
                                         ELSE st1}}} : TRUE
         : st1 \in {ViewportByTag(st, o, tags)}} : TRUE

\* a Before whose catch block logs the error without rethrowing it
BeforeHookSwallows(st, o, name, tags, e) ==
    CHOOSE r \in
        {Catch(IF st1.s.err THEN st1
              ELSE SetupScenarioConfiguration(st1, o, tags, e),
              "Failed to set up scenario")
         : st1 \in {[st EXCEPT !.w.currentScenario = name,
                               !.stats.totalScenarios = @ + 1,
                               !.s = CreateContext(st.s, o)]}} : TRUE

\* Before(scenario): the error, if any, is logged and rethrown (st.s.err)
BeforeHook(st, o, name, tags, e) ==
    CHOOSE r \in
        {LogRethrow(IF st1.s.err THEN st1
                   ELSE SetupScenarioConfiguration(st1, o, tags, e),
                   "Failed to set up scenario")
         : st1 \in {[st EXCEPT !.w.currentScenario = name,
                               !.stats.totalScenarios = @ + 1,
                               !.s = CreateContext(st.s, o)]}} : TRUE

\* hooks.ts declares no scenarioDuration: its definition is commented out
ScenarioDurationDefined == FALSE

\* a classification that counts a failed scenario as passed too
ClassifyScenarioDouble(st, status) ==
    IF status = "FAILED"
       THEN [st EXCEPT !.stats.failedScenarios = @ + 1,
                       !.stats.passedScenarios = @ + 1]
    ELSE IF status = "SKIPPED"
       THEN [st EXCEPT !.stats.skippedScenarios = @ + 1]
    ELSE [st EXCEPT !.stats.passedScenarios = @ + 1]

\* the status branch chain of After
ClassifyScenario(st, status) ==
    IF status = "FAILED"
       THEN [st EXCEPT !.stats.failedScenarios = @ + 1]
    ELSE IF status = "SKIPPED"
       THEN [st EXCEPT !.stats.skippedScenarios = @ + 1]
    ELSE [st EXCEPT !.stats.passedScenarios = @ + 1]

\* a status chain that takes every status but passed for a failure
ScenarioStatusNotPassedFails(status) ==
    IF status = "PASSED" THEN "PASSED" ELSE "FAILED"

ScenarioStatus(status) ==
    IF status = "FAILED" THEN "FAILED"
    ELSE IF status = "SKIPPED" THEN "SKIPPED"
    ELSE "PASSED"

ScenarioNameOf(w) ==
    IF w.currentScenario = Undefined THEN "Unknown Scenario" ELSE w.currentScenario

\* the try block of After
AfterBody(st, o, status) ==
    CHOOSE r \in
        {IF ScenarioDurationDefined THEN st2 ELSE Throw(st2)
         : st2 \in {IF ScenarioStatus(status) = "FAILED"
                    THEN Catch(CaptureScreenshot(st1, o,
                                   FailedShotName(ScenarioNameOf(st1.w))),
                               "Failed to capture failure screenshot")
                    ELSE st1
                    : st1 \in {ClassifyScenario(st, status)}}} : TRUE

\* the finally block of After
AfterCleanup(st, o) ==
    CHOOSE r \in
        {Catch([st0 EXCEPT !.s = CloseContext(st0.s, o), !.trace.closeCalled = TRUE],
               "Error during scenario cleanup")
         : st0 \in {st}} : TRUE

\* an After with try/finally and no catch block
AfterHookNoCatch(st, o, status) ==
    CHOOSE r \in
        {[AfterCleanup([body EXCEPT !.s.err = FALSE], o) EXCEPT !.s.err = body.s.err]
         : body \in {AfterBody(st, o, status)}} : TRUE

\* After(scenario): body, catch, finally; an error raised in the catch or
\* finally block itself would leave the hook (st.s.err)
AfterHook(st, o, status) ==
    CHOOSE r \in
        {AfterCleanup([Catch(body, "Error in After hook")
                          EXCEPT !.trace.catchEntered = body.s.err], o)
         : body \in {AfterBody(st, o, status)}} : TRUE

\* results of generateTestSummary
SummaryResults(stats) ==
    [written |-> TRUE,
     total |-> stats.totalScenarios,
     passed |-> stats.passedScenarios,
     failed |-> stats.failedScenarios,
     skipped |-> stats.skippedScenarios]

NoSummary == [written |-> FALSE, total |-> 0, passed |-> 0, failed |-> 0, skipped |-> 0]

\* an AfterAll whose browser close is not wrapped in try/catch
AfterAllHookNoCatch(st, o) ==
    CHOOSE r \in
        {IF st1.s.err
         THEN [st |-> st1,
               events |-> <<"totalDuration", "successRate", "summaryLogged",
                            "closeBrowser">>,
               summary |-> NoSummary]
         ELSE [st |-> IF o.writeFile THEN st1
                      ELSE [st1 EXCEPT !.log = @ \cup
                                {"Failed to generate test summary report"}],
               events |-> <<"totalDuration", "successRate", "summaryLogged",
                            "closeBrowser", "generateTestSummary">>,
               summary |-> IF o.writeFile THEN SummaryResults(st1.stats)
                           ELSE NoSummary]
         : st1 \in {[st EXCEPT !.s = CloseBrowser(st.s, o)]}} : TRUE

\* AfterAll: the duration, the logged summary with the success rate, the
\* browser close (its error logged), then generateTestSummary (the error of
\* writeFileSync logged); events lists the steps in the order they are taken
AfterAllHook(st, o) ==
    CHOOSE r \in
        {[st |-> IF o.writeFile THEN st1
                 ELSE [st1 EXCEPT !.log = @ \cup
                           {"Failed to generate test summary report"}],
          events |-> <<"totalDuration", "successRate", "summaryLogged",
                       "closeBrowser", "generateTestSummary">>,
          summary |-> IF o.writeFile THEN SummaryResults(st1.stats) ELSE NoSummary]
         : st1 \in {Catch([st EXCEPT !.s = CloseBrowser(st.s, o)],
                          "Failed to close browser")}} : TRUE

----------------------------------------------------------------------------
(* The run as the Cucumber runner drives it *)

NoScenario == [name |-> Undefined, tags |-> {}, status |-> "UNKNOWN",
               setupError |-> "none", steps |-> 0]

ZeroStats == [totalScenarios |-> 0, passedScenarios |-> 0,
              failedScenarios |-> 0, skippedScenarios |-> 0]

NoHist == [started |-> 0, statsAtStart |-> ZeroStats, statsAtAfter |-> ZeroStats,
           shotsAtAfter |-> 0, afterStatus |-> "NONE", afterRaised |-> FALSE,
           trace |-> NoTrace, closeOutcome |-> "none",
           prevWrote |-> FALSE, prevContext |-> Null, reused |-> FALSE,
           launched |-> Null, runEnd |-> << >>, runEndRaised |-> FALSE]

\* the last call: its name, whether it raised, the value it returned, the
\* number of engine objects it created, the clock reading it was made at,
\* the manager's fields when it was made, and the name and result of the call
\* before it; events is what a page-object call logged and did, in order
NoCall == [op |-> "none", raised |-> FALSE, ret |-> Null, created |-> 0, at |-> 0,
           events |-> << >>,
           from |-> [browser |-> Null, context |-> Null, page |-> Null],
           prevOp |-> "none", prevRaised |-> FALSE, prevRet |-> Null]

InitCommon ==
    /\ bm = [browser |-> Null, context |-> Null, page |-> Null]
    /\ engine = [browsers |-> {}, contexts |-> {}, pages |-> {}, closing |-> {},
                 nextId |-> 1]
    /\ world = NoWorld
    /\ testStats = ZeroStats
    /\ scenario = NoScenario
    /\ hookLog = {}
    /\ summary = NoSummary
    /\ hist = NoHist
    /\ lastCall = NoCall

Init ==
    /\ pc = "NotStarted" /\ env \in RunEnvs /\ InitCommon
    /\ config = EnvironmentManagerNew(env)

\* BeforeAll: the launch error is logged and rethrown, which ends the run
BeforeAll ==
    /\ pc = "NotStarted"
    /\ \E ok \in BOOLEAN :
         \E s1 \in {LaunchBrowser(Session(bm, engine), [AllOk EXCEPT !.launch = ok])} :
             /\ bm' = BmOf(s1)
             /\ engine' = EngineOf(s1)
             /\ pc' = IF s1.err THEN "Aborted" ELSE "RunActive"
             /\ hist' = [hist EXCEPT !.launched = s1.browser]
    /\ UNCHANGED <<env, config, world, testStats, scenario, hookLog, summary, lastCall>>

\* the runner constructs a World for the next scenario, tagged from family
ConstructWorldFor(family, max) ==
    /\ pc = "RunActive"
    /\ hist.started < max
    /\ \E name \in ScenarioNames, tags \in family :
         scenario' = [NoScenario EXCEPT !.name = name, !.tags = tags]
    /\ hist' = [NoHist EXCEPT
                  !.started = hist.started + 1,
                  !.statsAtStart = testStats,
                  !.prevWrote = hist.started > 0 /\
                        (DOMAIN world.testData # {} \/ DOMAIN world.scenarioContext # {}),
                  !.prevContext = hist.prevContext,
                  !.launched = hist.launched]
    /\ world' = CustomWorld
    /\ hookLog' = {}
    /\ pc' = "ScenarioSetup"
    /\ UNCHANGED <<env, config, bm, engine, testStats, summary, lastCall>>

ConstructWorld == ConstructWorldFor(TagSets, MaxScenarios)

Before ==
    /\ pc = "ScenarioSetup"
    /\ \E nc \in BOOLEAN :
         \E st \in {BeforeHook(Exec(world, Session(bm, engine), testStats),
                                [AllOk EXCEPT !.newContext = nc],
                                scenario.name, scenario.tags, env)} :
             /\ world' = st.w
             /\ bm' = BmOf(st.s)
             /\ engine' = EngineOf(st.s)
             /\ testStats' = st.stats
             /\ hookLog' = hookLog \cup st.log
             /\ scenario' = [scenario EXCEPT
                   !.status = IF st.s.err THEN "FAILED" ELSE "UNKNOWN",
                   !.setupError = IF ~st.s.err THEN "none"
                                  ELSE IF st.s.context = Null THEN "context"
                                  ELSE "configuration"]
    /\ hist' = [hist EXCEPT !.prevWrote = FALSE, !.prevContext = Null,
                            !.reused = bm'.context # Null /\
                                       bm'.context = hist.prevContext]
    /\ pc' = "ScenarioExecuting"
    /\ UNCHANGED <<env, config, summary, lastCall>>

\* a step body runs only while no hook or step of the scenario has failed
StepEnabled ==
    /\ pc = "ScenarioExecuting"
    /\ scenario.status = "UNKNOWN"
    /\ scenario.steps < MaxSteps

\* the effect of a step body that ended in execution state st
StepDone(st) ==
    /\ \E st1 \in {st} :
         /\ world' = st1.w
         /\ bm' = BmOf(st1.s)
         /\ engine' = EngineOf(st1.s)
         /\ hookLog' = hookLog \cup st1.log
         /\ scenario' = [scenario EXCEPT !.steps = @ + 1,
                                         !.status = IF st1.s.err THEN "FAILED" ELSE @]
    /\ UNCHANGED <<pc, env, config, testStats, summary, hist, lastCall>>

TestDataKeys == {"measuredLoadTime"}
ContextKeys == {"currentPage", "deviceType"}
StoredValues == {"homepage"}

StepSetTestData ==
    /\ StepEnabled
    /\ \E k \in TestDataKeys, v \in StoredValues :
         StepDone(SetTestData(Exec(world, Session(bm, engine), testStats), k, v))

StepSetScenarioContext ==
    /\ StepEnabled
    /\ \E k \in ContextKeys, v \in StoredValues :
         StepDone(SetScenarioContext(Exec(world, Session(bm, engine), testStats), k, v))

\* 'I am using a {word} device' / 'I am using a {word} viewport'
ViewportModes == {"mobile", "tablet", "desktop"}

StepSetViewportTo(mode) ==
    /\ StepEnabled
    /\ \E ok \in BOOLEAN :
         LET o == [AllOk EXCEPT !.setViewportSize = ok]
             st == Exec(world, Session(bm, engine), testStats)
         IN  StepDone(CASE mode = "mobile" -> SetMobileViewport(st, o)
                        [] mode = "tablet" -> SetTabletViewport(st, o)
                        [] mode = "desktop" -> SetDesktopViewport(st, o))

StepSetViewport == \E mode \in ViewportModes : StepSetViewportTo(mode)

\* a step that drives a page object: BasePage.getPage() asks the manager
StepUsePage ==
    /\ StepEnabled
    /\ \E np \in BOOLEAN :
         StepDone(GetPage(Exec(world, Session(bm, engine), testStats),
                          [AllOk EXCEPT !.newPage = np]))

StepInitializePageObjects ==
    /\ StepEnabled
    /\ \E np \in BOOLEAN :
         StepDone(InitializePageObjects(Exec(world, Session(bm, engine), testStats),
                                        [AllOk EXCEPT !.newPage = np]))

\* a step whose body raises (failed expectation, timeout)
StepRaises ==
    /\ StepEnabled
    /\ StepDone(Throw(Exec(world, Session(bm, engine), testStats)))

\* a step the runner does not pass: skipped or pending
StepNotPassed ==
    /\ StepEnabled
    /\ \E r \in {"SKIPPED", "PENDING"} :
         scenario' = [scenario EXCEPT !.steps = @ + 1, !.status = r]
    /\ UNCHANGED <<pc, env, config, bm, engine, world, testStats, hookLog, summary, hist,
                   lastCall>>

\* scenario.result.status as the runner hands it to After
ResultStatus == IF scenario.status = "UNKNOWN" THEN "PASSED" ELSE scenario.status

After ==
    /\ pc = "ScenarioExecuting"
    /\ \E np \in BOOLEAN, shot \in BOOLEAN, close \in CloseOutcomes :
         \E st \in {AfterHook(Exec(world, Session(bm, engine), testStats),
                               [AllOk EXCEPT !.newContext = np, !.newPage = np,
                                             !.screenshot = shot,
                                             !.contextClose = close],
                               ResultStatus)} :
             /\ world' = st.w
             /\ bm' = BmOf(st.s)
             /\ engine' = EngineOf(st.s)
             /\ testStats' = st.stats
             /\ hookLog' = hookLog \cup st.log
             /\ hist' = [hist EXCEPT !.statsAtAfter = testStats,
                                     !.shotsAtAfter = Len(world.screenshots),
                                     !.afterStatus = ResultStatus,
                                     !.afterRaised = st.s.err,
                                     !.trace = st.trace,
                                     !.closeOutcome = IF bm.context = Null
                                                      THEN "none" ELSE close,
                                     !.prevContext = bm.context]
    /\ scenario' = [scenario EXCEPT !.status = ResultStatus]
    /\ pc' = "RunActive"
    /\ UNCHANGED <<env, config, summary, lastCall>>

\* a context.close() that lost the race against the timer finishes later
CloseSettles ==
    /\ pc \in {"RunActive", "ScenarioSetup", "ScenarioExecuting", "Calls"}
    /\ \E c \in engine.closing :
         engine' = [engine EXCEPT !.closing = @ \ {c},
                                  !.contexts = @ \ {c},
                                  !.pages = {r \in @ : r.ctx # c}]
    /\ UNCHANGED <<pc, env, config, bm, world, testStats, scenario, hookLog, summary, hist,
                   lastCall>>

\* AfterAll: close the browser (error logged), then write the summary
AfterAll ==
    /\ pc = "RunActive"
    /\ \E bc \in BOOLEAN, written \in BOOLEAN :
         \E r \in {AfterAllHook(Exec(world, Session(bm, engine), testStats),
                                [AllOk EXCEPT !.browserClose = bc,
                                              !.writeFile = written])} :
             /\ bm' = BmOf(r.st.s)
             /\ engine' = EngineOf(r.st.s)
             /\ hookLog' = hookLog \cup r.st.log
             /\ summary' = r.summary
             /\ hist' = [hist EXCEPT !.runEnd = r.events,
                                     !.runEndRaised = r.st.s.err]
    /\ pc' = "RunComplete"
    /\ UNCHANGED <<env, config, world, testStats, scenario, lastCall>>

Next ==
    \/ BeforeAll
    \/ ConstructWorld
    \/ Before
    \/ StepSetTestData
    \/ StepSetScenarioContext
    \/ StepSetViewport
    \/ StepUsePage
    \/ StepInitializePageObjects
    \/ StepRaises
    \/ StepNotPassed
    \/ After
    \/ CloseSettles
    \/ AfterAll

Spec == Init /\ [][Next]_vars

----------------------------------------------------------------------------
(* Scenario setups alone: every process environment, every tag list of up  *)
(* to MaxTags tags, no step bodies                                         *)

InitSetup ==
    /\ pc = "NotStarted" /\ env \in AllEnvs /\ InitCommon
    /\ config = EnvironmentManagerNew(env)

ConstructTagged == ConstructWorldFor(SetupTagSets, MaxSetups)

NextSetup ==
    \/ BeforeAll
    \/ ConstructTagged
    \/ Before
    \/ After
    \/ CloseSettles
    \/ AfterAll

SpecSetup == InitSetup /\ [][NextSetup]_vars

----------------------------------------------------------------------------
(* The BrowserManager alone: its operations in any order, any outcome *)

InitBM ==
    /\ pc = "Calls" /\ env = [BROWSER |-> "unset", ENV |-> "unset"] /\ InitCommon
    /\ config = EnvironmentManagerNew(env)

\* the value a call that ended in session s hands to its caller
Returned(op, s) ==
    IF s.err THEN Null
    ELSE CASE op = "launchBrowser" -> s.browser
           [] op = "createContext" -> s.context
           [] op \in {"createPage", "getCurrentPage"} -> s.page
           [] OTHER -> Null

Call(op, s1) ==
    /\ pc = "Calls"
    /\ engine.nextId <= MaxIds
    /\ \E s2 \in {s1} :
         /\ bm' = BmOf(s2)
         /\ engine' = EngineOf(s2)
         /\ lastCall' = [op |-> op, raised |-> s2.err, ret |-> Returned(op, s2),
                         created |-> s2.nextId - engine.nextId, at |-> 0,
                         events |-> << >>,
                         from |-> bm,
                         prevOp |-> lastCall.op, prevRaised |-> lastCall.raised,
                         prevRet |-> lastCall.ret]
    /\ UNCHANGED <<pc, env, config, world, testStats, scenario, hookLog, summary, hist>>

EngineOutcomes ==
    {[AllOk EXCEPT !.launch = l, !.newContext = c, !.newPage = p]
        : l \in BOOLEAN, c \in BOOLEAN, p \in BOOLEAN}

CallLaunchBrowser ==
    \E o \in EngineOutcomes : Call("launchBrowser", LaunchBrowser(Session(bm, engine), o))

CallCreateContext ==
    \E o \in EngineOutcomes : Call("createContext", CreateContext(Session(bm, engine), o))

CallCreatePage ==
    \E o \in EngineOutcomes : Call("createPage", CreatePage(Session(bm, engine), o))

CallGetCurrentPage ==
    \E o \in EngineOutcomes :
        Call("getCurrentPage", GetCurrentPage(Session(bm, engine), o))

CallClosePage ==
    \E ok \in BOOLEAN :
        Call("closePage", ClosePage(Session(bm, engine), [AllOk EXCEPT !.pageClose = ok]))

CallCloseContext ==
    \E c \in CloseOutcomes :
        Call("closeContext",
             CloseContext(Session(bm, engine), [AllOk EXCEPT !.contextClose = c]))

CallCloseBrowser ==
    \E ok \in BOOLEAN :
        Call("closeBrowser",
             CloseBrowser(Session(bm, engine), [AllOk EXCEPT !.browserClose = ok]))

NavigationOutcomes ==
    {[AllOk EXCEPT !.goto = g, !.networkIdle = n] : g \in BOOLEAN, n \in IdleOutcomes}

CallNavigateToUrl ==
    \E o \in NavigationOutcomes :
        Call("navigateToUrl", NavigateToUrl(Session(bm, engine), o))

CallWaitForPageLoad ==
    \E o \in NavigationOutcomes :
        Call("waitForPageLoad", WaitForPageLoad(Session(bm, engine), o))

\* the tracked page is closed from outside the manager (window.close())
PageCloses ==
    /\ pc = "Calls"
    /\ bm.page # Null
    /\ ~IsClosed(Session(bm, engine), bm.page)
    /\ engine' = [engine EXCEPT !.pages = {r \in @ : r.id # bm.page}]
    /\ UNCHANGED <<pc, env, config, bm, world, testStats, scenario, hookLog, summary, hist,
                   lastCall>>

NextBM ==
    \/ CallLaunchBrowser
    \/ CallCreateContext
    \/ CallCreatePage
    \/ CallGetCurrentPage
    \/ CallClosePage
    \/ CallCloseContext
    \/ CallCloseBrowser
    \/ CallNavigateToUrl
    \/ CallWaitForPageLoad
    \/ PageCloses
    \/ CloseSettles

SpecBM == InitBM /\ [][NextBM]_vars

----------------------------------------------------------------------------
(* The World alone: its helpers called in any order by the step bodies of  *)
(* one scenario, the clock never running backwards                         *)

InitWorld ==
    /\ pc = "NoWorld" /\ env = [BROWSER |-> "unset", ENV |-> "unset"] /\ InitCommon
    /\ config = EnvironmentManagerNew(env)

\* the runner constructs the World of the scenario
WorldConstruct ==
    /\ pc = "NoWorld"
    /\ world' = CustomWorld
    /\ pc' = "WorldCalls"
    /\ UNCHANGED <<env, config, bm, engine, testStats, scenario, hookLog, summary, hist,
                   lastCall>>

\* the clock readings a call made now can see
ClockReadings == {now \in 1..MaxClock : now >= lastCall.at}

WorldCall(op, st, now) ==
    /\ pc = "WorldCalls"
    /\ \E st1 \in {st} :
         /\ world' = st1.w
         /\ bm' = BmOf(st1.s)
         /\ engine' = EngineOf(st1.s)
         /\ hookLog' = st1.log
         /\ lastCall' = [NoCall EXCEPT !.op = op, !.raised = st1.s.err,
                                       !.ret = st1.ret, !.at = now,
                                       !.events = st1.events,
                                       !.from = bm,
                                       !.prevOp = lastCall.op,
                                       !.prevRaised = lastCall.raised,
                                       !.prevRet = lastCall.ret]
    /\ UNCHANGED <<pc, env, config, testStats, scenario, summary, hist>>

CallStartPerformanceMeasurement ==
    \E now \in ClockReadings :
        WorldCall("startPerformanceMeasurement",
                  StartPerformanceMeasurement(
                      Exec(world, Session(bm, engine), testStats), now), now)

CallEndPerformanceMeasurement ==
    \E now \in ClockReadings :
        WorldCall("endPerformanceMeasurement",
                  EndPerformanceMeasurement(
                      Exec(world, Session(bm, engine), testStats), now), now)

CallCleanupTestData ==
    \E now \in ClockReadings :
        WorldCall("cleanupTestData",
                  CleanupTestData(Exec(world, Session(bm, engine), testStats)), now)

CallSetTestData ==
    \E now \in ClockReadings, k \in TestDataKeys, v \in StoredValues :
        WorldCall("setTestData",
                  SetTestData(Exec(world, Session(bm, engine), testStats), k, v), now)

CallSetScenarioContext ==
    \E now \in ClockReadings, k \in ContextKeys, v \in StoredValues :
        WorldCall("setScenarioContext",
                  SetScenarioContext(Exec(world, Session(bm, engine), testStats), k, v),
                  now)

\* the names the step definitions and World helpers store under 'currentPage'
PageNames == {"home", "search-results", "about", "homepage", "research", "news"}

\* (the calls below do not read the clock: the last reading stays)
CallSetCurrentPage ==
    \E v \in PageNames :
        WorldCall("setCurrentPage",
                  SetScenarioContext(Exec(world, Session(bm, engine), testStats),
                                     "currentPage", v), lastCall.at)

PageOutcomes ==
    {[AllOk EXCEPT !.newPage = p, !.loaded = l, !.urlIsAbout = l]
        : p \in BOOLEAN, l \in BOOLEAN}

CallValidateCurrentPageLoadedOf(copy, o) ==
    WorldCall("validateCurrentPageLoaded",
              ValidateCurrentPageLoaded(Exec(world, Session(bm, engine), testStats),
                                        o, copy), lastCall.at)

CallValidateCurrentPageLoaded ==
    \E copy \in WorldCopies, o \in PageOutcomes :
        CallValidateCurrentPageLoadedOf(copy, o)

FailureOutcomes ==
    {[AllOk EXCEPT !.newPage = p, !.screenshot = s, !.title = ti]
        : p \in BOOLEAN, s \in BOOLEAN, ti \in BOOLEAN}

\* screenshots one World keeps before it is cleaned
MaxShots == 1

CallHandleTestFailure ==
    \E o \in FailureOutcomes :
        /\ Len(world.screenshots) < MaxShots
        /\ WorldCall("handleTestFailure",
                     HandleTestFailure(Exec(world, Session(bm, engine), testStats), o),
                     lastCall.at)

CallInitializePageObjects ==
    \E o \in {[AllOk EXCEPT !.newPage = p] : p \in BOOLEAN} :
        WorldCall("initializePageObjects",
                  InitializePageObjects(Exec(world, Session(bm, engine), testStats), o),
                  lastCall.at)

----------------------------------------------------------------------------
(* SpecEnv: the EnvironmentManager singleton and the operations it exposes *)

EnvEnvs ==
    [BROWSER : {"unset"}, ENV : {"unset", "t5", "prod"},
     VIEWPORT : {"unset", "mobile", "large"}, HEADED : {"unset", "true"},
     TIMEOUT : {"unset", "5000", "abc"}, SLOW_MO : {"unset", "100"}]

InitEnv ==
    /\ pc = "NoEnvironmentManager" /\ env \in EnvEnvs /\ InitCommon
    /\ config = NoConfig

EnvCall(op, cfg, ret, raised) ==
    /\ config' = cfg
    /\ lastCall' = [NoCall EXCEPT !.op = op, !.raised = raised, !.ret = ret,
                                  !.prevOp = lastCall.op,
                                  !.prevRaised = lastCall.raised]
    /\ UNCHANGED <<env, bm, engine, world, testStats, scenario, hookLog, summary, hist>>

\* getInstance: the first call constructs the manager, later calls return it
GetInstance ==
    \E cfg \in {IF config = NoConfig THEN EnvironmentManagerNew(env) ELSE config} :
        /\ pc' = IF cfg = NoConfig THEN "NoEnvironmentManager" ELSE "EnvCalls"
        /\ EnvCall("getInstance", cfg, Null, cfg = NoConfig)

CallGetConfig ==
    pc = "EnvCalls" /\ EnvCall("getConfig", config, config, FALSE) /\ UNCHANGED pc

CallGetBrowserConfig ==
    pc = "EnvCalls" /\ EnvCall("getBrowserConfig", config, config.browser, FALSE)
        /\ UNCHANGED pc

CallGetBaseUrl ==
    pc = "EnvCalls" /\ EnvCall("getBaseUrl", config, config.baseUrl, FALSE)
        /\ UNCHANGED pc

\* the partial configurations handed to updateConfig
ConfigUpdates ==
    {[x \in {} |-> Null],
     [baseUrl |-> "https://example.org"],
     [pageLoadTimeout |-> 1],
     [browser |-> [headless |-> TRUE, viewport |-> MobileViewport,
                   timeout |-> 1, slowMo |-> 0]]}

CallUpdateConfig ==
    \E updates \in ConfigUpdates :
        pc = "EnvCalls" /\ EnvCall("updateConfig", UpdateConfig(config, updates),
                                    Null, FALSE)
            /\ UNCHANGED pc

NextEnv ==
    \/ GetInstance
    \/ CallGetConfig
    \/ CallGetBrowserConfig
    \/ CallGetBaseUrl
    \/ CallUpdateConfig

SpecEnv == InitEnv /\ [][NextEnv]_vars

\* the World's page helpers called in any order on one World
NextHelpers ==
    \/ WorldConstruct
    \/ CallInitializePageObjects
    \/ CallSetCurrentPage
    \/ CallValidateCurrentPageLoaded
    \/ CallHandleTestFailure
    \/ CallSetTestData
    \/ CallStartPerformanceMeasurement
    \/ CallCleanupTestData

SpecHelpers == InitWorld /\ [][NextHelpers]_vars

NextWorld ==
    \/ WorldConstruct
    \/ CallSetTestData
    \/ CallSetScenarioContext
    \/ CallStartPerformanceMeasurement
    \/ CallEndPerformanceMeasurement
    \/ CallCleanupTestData

SpecWorld == InitWorld /\ [][NextWorld]_vars

----------------------------------------------------------------------------
(* A page object alone: the HomePage of one World, its BasePage methods    *)
(* called in any order, the manager's page and context closed in between   *)

InitPage ==
    /\ pc = "NoPageObject" /\ env = [BROWSER |-> "unset", ENV |-> "unset"] /\ InitCommon
    /\ config = EnvironmentManagerNew(env)

\* the World constructor runs new HomePage(), which holds no page yet
ConstructPageObjects ==
    /\ pc = "NoPageObject"
    /\ world' = CustomWorld
    /\ pc' = "Calls"
    /\ UNCHANGED <<env, config, bm, engine, testStats, scenario, hookLog, summary, hist,
                   lastCall>>

PageCall(op, st) ==
    /\ pc = "Calls"
    /\ engine.nextId <= MaxIds
    /\ \E st1 \in {st} :
         /\ world' = st1.w
         /\ bm' = BmOf(st1.s)
         /\ engine' = EngineOf(st1.s)
         /\ lastCall' = [NoCall EXCEPT !.op = op, !.raised = st1.s.err,
                                       !.created = st1.s.nextId - engine.nextId,
                                       !.events = st1.events,
                                       !.from = bm]
    /\ UNCHANGED <<pc, env, config, testStats, scenario, hookLog, summary, hist>>

LoadOutcomes ==
    {[AllOk EXCEPT !.newPage = p, !.goto = g, !.domReady = d, !.networkIdle = n]
        : p \in BOOLEAN, g \in BOOLEAN, d \in BOOLEAN, n \in IdleOutcomes}

ElementOutcomes ==
    {[AllOk EXCEPT !.newPage = p, !.visible = v, !.action = a, !.expect = a]
        : p \in BOOLEAN, v \in BOOLEAN, a \in BOOLEAN}

CallNavigateTo ==
    \E o \in LoadOutcomes :
        PageCall("navigateTo",
                 NavigateTo(Exec(world, Session(bm, engine), testStats), o))

CallBasePageWaitForPageLoad ==
    \E o \in LoadOutcomes :
        PageCall("waitForPageLoad",
                 BasePageWaitForPageLoad(Exec(world, Session(bm, engine), testStats), o))

CallInteractWith(kind, o) ==
    PageCall(kind, Interact(Exec(world, Session(bm, engine), testStats), o, kind))

CallInteract == \E kind \in Interactions, o \in ElementOutcomes : CallInteractWith(kind, o)

CallAssertWith(kind, o) ==
    PageCall(kind, AssertThat(Exec(world, Session(bm, engine), testStats), o, kind))

CallAssert == \E kind \in Assertions, o \in ElementOutcomes : CallAssertWith(kind, o)

NextPage ==
    \/ ConstructPageObjects
    \/ CallNavigateTo
    \/ CallBasePageWaitForPageLoad
    \/ CallInteract
    \/ CallAssert
    \/ CallCloseContext
    \/ PageCloses
    \/ CloseSettles

SpecPage == InitPage /\ [][NextPage]_vars

----------------------------------------------------------------------------
(* Properties *)

AfterHookRan == hist.afterStatus # "NONE"

CounterSum(stats) ==
    stats.passedScenarios + stats.failedScenarios + stats.skippedScenarios

\* C1: when the Before hook of a scenario is about to start, the test-data
\* map and the scenario-context map of its World are empty, whatever the
\* previous scenario wrote.
C1_MapsEmptyAtSetup ==
    pc = "ScenarioSetup" =>
        /\ DOMAIN world.testData = {}
        /\ DOMAIN world.scenarioContext = {}

C1_Witness ==
    /\ pc = "ScenarioSetup"
    /\ hist.prevWrote
    /\ DOMAIN world.testData = {}

\* C2: between scenarios and when a Before hook is about to start, the
\* manager holds neither a context nor a page reference, and the context a
\* Before hook obtains is never the one the previous scenario held.
C2_ContextClearedBetweenScenarios ==
    /\ pc \in {"RunActive", "ScenarioSetup"} => bm.context = Null /\ bm.page = Null
    /\ ~hist.reused

C2_Witness ==
    /\ pc = "ScenarioSetup"
    /\ hist.started >= 2
    /\ hist.prevContext # Null
    /\ bm.context = Null

C4_OneFailureScreenshot ==
    (AfterHookRan /\ hist.afterStatus = "FAILED" /\ scenario.setupError = "none"
        /\ hist.trace.shotTaken) =>
        /\ Len(world.screenshots) = hist.shotsAtAfter + 1
        /\ world.screenshots[Len(world.screenshots)] = FailedShotName(scenario.name)
        /\ testStats.failedScenarios = hist.statsAtAfter.failedScenarios + 1
        /\ testStats.passedScenarios = hist.statsAtAfter.passedScenarios
        /\ testStats.skippedScenarios = hist.statsAtAfter.skippedScenarios

C4_Witness ==
    /\ AfterHookRan
    /\ hist.afterStatus = "FAILED"
    /\ scenario.setupError = "none"
    /\ scenario.steps >= 1
    /\ hist.trace.shotTaken
    /\ Len(world.screenshots) = 1

C6_SetupFailureCountsAsFailed ==
    /\ ("Failed to set up scenario" \in hookLog) <=> (scenario.setupError # "none")
    /\ scenario.setupError # "none" =>
          /\ scenario.steps = 0
          /\ scenario.status = "FAILED"
    /\ (AfterHookRan /\ scenario.setupError # "none") =>
          /\ testStats.totalScenarios = hist.statsAtStart.totalScenarios + 1
          /\ testStats.failedScenarios = hist.statsAtStart.failedScenarios + 1
          /\ testStats.passedScenarios = hist.statsAtStart.passedScenarios
          /\ testStats.skippedScenarios = hist.statsAtStart.skippedScenarios

C6_Witness ==
    /\ AfterHookRan
    /\ scenario.setupError = "context"
    /\ testStats.failedScenarios = hist.statsAtStart.failedScenarios + 1

RestrictionTags == {"@chromium-only", "@firefox-only", "@webkit-only",
                    "@t3-only", "@t5-only"}

AbortedByTagRestriction ==
    /\ scenario.setupError = "configuration"
    /\ scenario.tags \cap RestrictionTags # {}

\* C7 as stated: a scenario aborted at setup by a tag restriction is counted
\* under skipped, not failed, and no failure screenshot is captured for it;
\* no scenario counted as skipped has a failure screenshot captured.
C7_Original ==
    /\ (AfterHookRan /\ AbortedByTagRestriction) =>
          /\ testStats.skippedScenarios = hist.statsAtStart.skippedScenarios + 1
          /\ testStats.failedScenarios = hist.statsAtStart.failedScenarios
          /\ ~hist.trace.shotAttempted
    /\ (AfterHookRan /\ hist.afterStatus = "SKIPPED") => ~hist.trace.shotAttempted

\* C7 amended: a scenario aborted at setup by a tag restriction is counted
\* under failed, not skipped, and the teardown hook attempts a failure
\* screenshot for it; a scenario counted as skipped has no failure
\* screenshot attempted and is counted under skipped only.
C7_Amended ==
    /\ (AfterHookRan /\ AbortedByTagRestriction) =>
          /\ testStats.failedScenarios = hist.statsAtStart.failedScenarios + 1
          /\ testStats.skippedScenarios = hist.statsAtStart.skippedScenarios
          /\ hist.trace.shotAttempted
    /\ (AfterHookRan /\ hist.afterStatus = "SKIPPED") =>
          /\ ~hist.trace.shotAttempted
          /\ Len(world.screenshots) = hist.shotsAtAfter
          /\ testStats.skippedScenarios = hist.statsAtAfter.skippedScenarios + 1
          /\ testStats.failedScenarios = hist.statsAtAfter.failedScenarios

C7_Witness ==
    /\ AfterHookRan
    /\ AbortedByTagRestriction
    /\ hist.trace.shotTaken
    /\ testStats.failedScenarios = hist.statsAtStart.failedScenarios + 1

BrowserTags == {"@chromium-only", "@firefox-only", "@webkit-only"}

TagEngine(tag) ==
    CASE tag = "@chromium-only" -> "chromium"
      [] tag = "@firefox-only" -> "firefox"
      [] tag = "@webkit-only" -> "webkit"

\* C8 as stated: for every BROWSER value and each browser-restriction tag
\* X, the setup of a scenario tagged X (and with no other restriction)
\* raises exactly when the engine getBrowserType selects is not X's engine.
C8_Original ==
    \A x \in BrowserTags :
        (/\ pc = "ScenarioExecuting"
         /\ scenario.tags \cap RestrictionTags = {x}
         /\ scenario.setupError # "context") =>
            ((scenario.setupError = "configuration")
                <=> (GetBrowserType(env.BROWSER) # TagEngine(x)))

TagMode(tags) ==
    IF "@mobile" \in tags THEN "mobile"
    ELSE IF "@tablet" \in tags THEN "tablet"
    ELSE IF "@desktop" \in tags THEN "desktop"
    ELSE "none"

ModeSize(mode) ==
    CASE mode = "mobile" -> MobileViewport
      [] mode = "tablet" -> TabletViewport
      [] mode = "desktop" -> DesktopViewport

\* the page of the session has the size of mode and the context key says so
ViewportIs(mode) ==
    /\ MapGet(world.scenarioContext, "viewport") = mode
    /\ \E r \in engine.pages : r.id = bm.page /\ r.size = ModeSize(mode)

\* C9 as stated: when the Before hook of a scenario tagged @mobile, @tablet
\* or @desktop completes, the page viewport has the tag's size and the
\* scenario-context key 'viewport' names the tag's mode; the same holds
\* after a step has called the viewport helper of a mode.
C9_Original ==
    [][/\ (Before /\ scenario'.setupError = "none" /\ TagMode(scenario.tags) # "none")
            => ViewportIs(TagMode(scenario.tags))'
       /\ \A mode \in ViewportModes :
            (StepSetViewportTo(mode) /\ scenario'.status = "UNKNOWN")
                => ViewportIs(mode)']_vars

\* C10: the manager holds a page reference only if it holds a context
\* reference, and a context reference only if it holds a browser reference.
C10_ReferenceHierarchy ==
    /\ bm.page # Null => bm.context # Null
    /\ bm.context # Null => bm.browser # Null

C10_Witness ==
    /\ lastCall.op = "closeBrowser"
    /\ lastCall.raised
    /\ bm.page # Null
    /\ bm.context # Null

\* C11 as stated: at every moment of a run at most one context and at most
\* one page created by the manager are open in the browser, also while a
\* context close that lost the 1 second race is still in flight and the next
\* scenario creates its context and page.
C11_Original ==
    /\ Cardinality(engine.contexts) <= 1
    /\ Cardinality(engine.pages) <= 1

\* C12: a createContext call that directly follows a createContext call
\* that returned (no other manager call between them) returns too, returns
\* the same context, and creates nothing in the browser.
C12_CreateContextIdempotent ==
    (lastCall.op = "createContext" /\ lastCall.prevOp = "createContext"
        /\ ~lastCall.prevRaised) =>
        /\ ~lastCall.raised
        /\ lastCall.ret = lastCall.prevRet
        /\ lastCall.ret = bm.context
        /\ lastCall.created = 0

C12_Witness ==
    /\ lastCall.op = "createContext"
    /\ lastCall.prevOp = "createContext"
    /\ ~lastCall.prevRaised
    /\ lastCall.ret # Null
    /\ lastCall.ret = lastCall.prevRet

\* C14: closeContext never raises; after it the manager holds neither a
\* context nor a page reference, whether the underlying close finished,
\* raised or was still in flight when the timer fired; the browser reference
\* is the one held before the call.
C14_CloseContextAlwaysClears ==
    lastCall.op = "closeContext" =>
        /\ ~lastCall.raised
        /\ bm.context = Null
        /\ bm.page = Null
        /\ bm.browser = lastCall.from.browser

C14_Witness ==
    /\ lastCall.op = "closeContext"
    /\ lastCall.from.context # Null
    /\ lastCall.from.page # Null
    /\ lastCall.from.context \in engine.closing
    /\ bm.context = Null
    /\ bm.browser # Null

\* C15: in every state of the manager, getCurrentPage succeeds when the
\* engine calls it makes succeed; when it returns, the manager holds an open
\* page, a context and a browser; when the tracked page is open it is
\* returned and nothing is created.
C15_GetCurrentPageReturnsOpenPage ==
    pc = "Calls" =>
        \A o \in EngineOutcomes :
            \A s \in {Session(bm, engine)} :
                \A s1 \in {GetCurrentPage(s, o)} :
                    /\ (o = AllOk => ~s1.err)
                    /\ ~s1.err =>
                          /\ s1.page # Null
                          /\ ~IsClosed(s1, s1.page)
                          /\ s1.context # Null
                          /\ s1.browser # Null
                    /\ (s.page # Null /\ ~IsClosed(s, s.page)) => s1 = s

C15_Witness ==
    /\ lastCall.op = "getCurrentPage"
    /\ ~lastCall.raised
    /\ lastCall.from.browser = Null
    /\ lastCall.created = 3
    /\ lastCall.ret = bm.page
    /\ ~IsClosed(Session(bm, engine), bm.page)

\* C13: from the successful launch of the run-start hook until the run-end
\* hook the manager holds the browser launched then and the engine runs
\* that browser only, through every scenario setup, step and teardown; a
\* launchBrowser call made then returns it and changes nothing.
C13_BrowserReferenceStable ==
    pc \in {"RunActive", "ScenarioSetup", "ScenarioExecuting"} =>
        /\ bm.browser # Null
        /\ bm.browser = hist.launched
        /\ engine.browsers = {hist.launched}
        /\ \A o \in EngineOutcomes :
              \A s \in {Session(bm, engine)} :
                  /\ LaunchBrowser(s, o) = s
                  /\ Returned("launchBrowser", LaunchBrowser(s, o)) = hist.launched

C13_Witness ==
    /\ pc = "RunActive"
    /\ hist.started = 2
    /\ AfterHookRan
    /\ hist.trace.shotTaken
    /\ bm.browser # Null
    /\ bm.browser = hist.launched

\* C16: an endPerformanceMeasurement made while no start timestamp is held
\* (never started, or ended or cleaned up since) returns 0, logs the warning
\* and does not raise; one that directly follows another end returns 0 with
\* the warning; one made while a timestamp is held logs no warning, returns
\* the elapsed time and leaves no timestamp.
C16_EndWithoutStartReturnsZero ==
    /\ pc = "WorldCalls" =>
          \A now \in ClockReadings :
              \A st \in {Exec(world, Session(bm, engine), testStats)} :
                  \A st1 \in {EndPerformanceMeasurement(st, now)} :
                      /\ ~st1.s.err
                      /\ st1.w.testStartTime = 0
                      /\ world.testStartTime = 0 =>
                            /\ st1.ret = 0
                            /\ "Performance measurement was not started" \in st1.log
                      /\ world.testStartTime # 0 =>
                            /\ st1.ret = now - world.testStartTime
                            /\ st1.log = {}
    /\ (lastCall.op = "endPerformanceMeasurement"
            /\ lastCall.prevOp \in {"none", "endPerformanceMeasurement",
                                    "cleanupTestData"}) =>
          /\ lastCall.ret = 0
          /\ ~lastCall.raised
          /\ "Performance measurement was not started" \in hookLog

C16_Witness ==
    /\ lastCall.op = "endPerformanceMeasurement"
    /\ lastCall.prevOp = "endPerformanceMeasurement"
    /\ lastCall.prevRet > 0
    /\ lastCall.ret = 0
    /\ "Performance measurement was not started" \in hookLog

\* C17: the run-end hook takes its steps in this order: duration, success
\* rate, logged summary, browser close, summary artifact; it does not raise;
\* unless writing the file itself fails the artifact is written, also when
\* closing the browser raised, and its total, passed, failed and skipped
\* fields are the run-statistics counters.
C17_RunEndOrder ==
    pc = "RunComplete" =>
        /\ hist.runEnd = <<"totalDuration", "successRate", "summaryLogged",
                           "closeBrowser", "generateTestSummary">>
        /\ ~hist.runEndRaised
        /\ summary.written <=> ("Failed to generate test summary report" \notin hookLog)
        /\ summary.written =>
              /\ summary.total = testStats.totalScenarios
              /\ summary.passed = testStats.passedScenarios
              /\ summary.failed = testStats.failedScenarios
              /\ summary.skipped = testStats.skippedScenarios

C17_Witness ==
    /\ pc = "RunComplete"
    /\ "Failed to close browser" \in hookLog
    /\ summary.written
    /\ summary.total = 2
    /\ summary.failed = 1

\* the capture of the failure screenshot raised in the After hook
CaptureFailed == hist.trace.shotAttempted /\ ~hist.trace.shotTaken

\* C18 as stated: for a scenario whose classification and (if failed)
\* screenshot capture succeed, the body of the After hook runs to its end
\* without raising, so its error branch is not entered and 'Error in After
\* hook' is not logged.
C18_Original ==
    (AfterHookRan /\ ~CaptureFailed) =>
        /\ ~hist.trace.catchEntered
        /\ "Error in After hook" \notin hookLog

\* C19 as stated: the After hook increments exactly one of the passed,
\* failed and skipped counters, the one of the scenario's terminal status:
\* passed only when the status is passed, failed only when it is failed,
\* skipped only when it is skipped.
C19_Original ==
    AfterHookRan =>
        /\ CounterSum(testStats) = CounterSum(hist.statsAtAfter) + 1
        /\ testStats.passedScenarios # hist.statsAtAfter.passedScenarios
              => hist.afterStatus = "PASSED"
        /\ testStats.failedScenarios # hist.statsAtAfter.failedScenarios
              => hist.afterStatus = "FAILED"
        /\ testStats.skippedScenarios # hist.statsAtAfter.skippedScenarios
              => hist.afterStatus = "SKIPPED"

\* C20 as stated: after the closeBrowser of the run-end hook has returned or
\* raised, the manager holds no browser, context or page reference; no
\* browser is closed before the run-end hook and that hook calls
\* closeBrowser once.
C20_Original ==
    /\ pc = "RunComplete" =>
          /\ bm.browser = Null
          /\ bm.context = Null
          /\ bm.page = Null
          /\ Cardinality({i \in DOMAIN hist.runEnd : hist.runEnd[i] = "closeBrowser"}) = 1
    /\ pc \in {"RunActive", "ScenarioSetup", "ScenarioExecuting"} =>
          engine.browsers = {hist.launched}

\* C21 as stated: with the page acquired, BrowserManager.navigateToUrl
\* raises only when the navigation to DOM-ready fails; when DOM-ready is
\* reached and the network-idle wait times out it completes without raising.
C21_Original ==
    [][\A o \in NavigationOutcomes :
           (Call("navigateToUrl", NavigateToUrl(Session(bm, engine), o))
               /\ lastCall'.raised) => ~o.goto]_vars

\* e is among the events of the last call
Logged(type, what) ==
    \E i \in DOMAIN lastCall.events :
        lastCall.events[i] = [type |-> type, what |-> what]

C23_Original ==
    lastCall.op \in Interactions =>
        /\ Logged("pageAction", lastCall.op)
        /\ \A j \in DOMAIN lastCall.events :
              lastCall.events[j] = [type |-> "page", what |-> lastCall.op] =>
                  \E i \in 1..(j - 1) :
                      lastCall.events[i] = [type |-> "waitFor", what |-> "visible"]

\* C24 as stated: every assertion primitive logs an assertion record on
\* every call, whether the check passes or fails, and raises exactly when
\* the check fails.
C24_Original ==
    [][\A kind \in Assertions, o \in ElementOutcomes :
          (world.homePage.page # Null /\ CallAssertWith(kind, o)) =>
              /\ \E i \in DOMAIN lastCall'.events :
                    lastCall'.events[i].type = "assertion"
              /\ lastCall'.raised <=>
                    ~(o.expect /\ ~IsClosed(Session(bm, engine), world.homePage.page))
      ]_vars

\* the name stored under 'currentPage' when validateCurrentPageLoaded was called
\* (the call leaves the scenario context alone)
CurrentPageKey == MapGet(world.scenarioContext, "currentPage")

WarnedUnknownPage ==
    /\ "Unknown page type" \in hookLog
    /\ lastCall.ret = FALSE
    /\ ~lastCall.raised

\* C25 as stated: validateCurrentPageLoaded asks the home page module for
\* 'home' and the search results module for 'search-results', and for an unset
\* key or any other name (none has a page module) warns, returns false and
\* does not raise.
C25_Original ==
    lastCall.op = "validateCurrentPageLoaded" =>
        /\ CurrentPageKey = "home" => Logged("isPageLoaded", "homePage")
        /\ CurrentPageKey = "search-results" => Logged("isPageLoaded", "searchResultsPage")
        /\ CurrentPageKey \notin {"home", "search-results"} => WarnedUnknownPage

\* C25 amended: 'home' and 'search-results' are answered by the page module's
\* isPageLoaded without raising; an unset key and every other name except
\* 'about' warn, return false and do not raise; 'about' does the same only in
\* the copy of world.ts without an 'about' case, and is otherwise answered
\* from the current URL with no warning.
C25_Amended ==
    lastCall.op = "validateCurrentPageLoaded" =>
        /\ CurrentPageKey = "home" =>
              Logged("isPageLoaded", "homePage") /\ ~lastCall.raised
        /\ CurrentPageKey = "search-results" =>
              Logged("isPageLoaded", "searchResultsPage") /\ ~lastCall.raised
        /\ CurrentPageKey \notin {"home", "search-results", "about"} =>
              WarnedUnknownPage /\ lastCall.events = << >>
        /\ CurrentPageKey = "about" =>
              \/ WarnedUnknownPage /\ lastCall.events = << >>
              \/ "Unknown page type" \notin hookLog
                    /\ (lastCall.raised \/ Logged("getCurrentUrl", "homePage"))

C25_Witness ==
    /\ lastCall.op = "validateCurrentPageLoaded"
    /\ CurrentPageKey = "news"
    /\ WarnedUnknownPage

\* C26 as stated: handleTestFailure never raises, and when the screenshot
\* capture raises, the scenario-context map (when it has entries) is still
\* logged.
C26_Original ==
    lastCall.op = "handleTestFailure" =>
        /\ ~lastCall.raised
        /\ ("Failed to capture screenshot" \in hookLog
              /\ world.scenarioContext # EmptyMap)
             => "Scenario context at failure:" \in hookLog

\* the fields of a World that hold scenario data
DataFields == {"testData", "scenarioContext", "screenshots", "traces",
               "currentScenario", "currentStep", "testStartTime"}

DataState(w) == [f \in DataFields |-> w[f]]

\* C27: cleanupTestData, called on any World, does not raise and leaves the
\* two maps empty, the screenshot and trace lists empty and currentScenario,
\* currentStep and testStartTime absent, which is the data state of a newly
\* constructed World; a second cleanup changes nothing.
C27_CleanupRestoresFreshData ==
    /\ pc = "WorldCalls" =>
          \A st1 \in {CleanupTestData(Exec(world, Session(bm, engine), testStats))} :
              /\ ~st1.s.err
              /\ DataState(st1.w) = DataState(CustomWorld)
              /\ CleanupTestData(st1) = st1
    /\ lastCall.op = "cleanupTestData" =>
          /\ ~lastCall.raised
          /\ DataState(world) = DataState(CustomWorld)

C27_Witness ==
    /\ lastCall.op = "cleanupTestData"
    /\ lastCall.prevOp = "setCurrentPage"
    /\ world.page # Null
    /\ DataState(world) = DataState(CustomWorld)

\* C28 as stated: once the EnvironmentManager exists, no operation it exposes
\* changes the configuration that getConfig, getBrowserConfig and getBaseUrl
\* return.
C28_Original == [][pc = "EnvCalls" => config' = config]_vars

\* C29 as stated: whatever name the steps and World helpers have stored under
\* 'currentPage', a later validateCurrentPageLoaded on the same World does
\* not take the unknown-page branch.
C29_Original ==
    (lastCall.op = "validateCurrentPageLoaded" /\ CurrentPageKey \in PageNames)
        => "Unknown page type" \notin hookLog

\* C30 as stated: the After hook of a failed scenario captures the failure
\* screenshot before it calls closeContext, so no context that the capture
\* makes the manager create is still open in the browser when the hook has
\* ended.
C30_Original ==
    [][(After /\ ResultStatus = "FAILED" /\ hist'.trace.shotAttempted)
          => /\ hist'.trace.closeCalled
             /\ engine'.contexts \subseteq engine.contexts]_vars
====
